---------------------------- MODULE Spec2Model ----------------------------
(***************************************************************************)
(* Model of cspice/src/time/date_time.rs: the calendar- and scale-tagged   *)
(* DateTime value, its constructors, its conversions to Ephemeris Time and *)
(* Julian Date, its Display rendering and the chrono adapter.              *)
(*                                                                         *)
(* Text is a sequence of one-character strings, so that composing a date   *)
(* string and parsing it are different computations.                       *)
(* Fractional quantities are fixed point: DateTime.second and the second   *)
(* of an ET are counted in units of 1/SecondScale second.  The inputs are  *)
(* chosen so that the f32/f64 values of the program are exact in that      *)
(* unit.  The one place where IEEE-754 rounding changes an integer result, *)
(* the minutes of Display, is modelled bit-exactly (F64FractMins).         *)
(***************************************************************************)
EXTENDS Integers, Sequences, FiniteSets, TLC

\* The fields of the records of this module, numbered in the order in
\* which every record below lists them.
FieldOrder ==
    [ok |-> 1, val |-> 2, panic |-> 5, kind |-> 6,
     et |-> 7, jd |-> 8, dt |-> 9, text |-> 10, err |-> 11, date |-> 12,
     calls |-> 13, year |-> 14, month |-> 15, jdn |-> 16, day |-> 17,
     hour |-> 18, minute |-> 19, second |-> 20, nanosecond |-> 21,
     sod |-> 22, us |-> 23, zone |-> 24, calendar |-> 25, scale |-> 26]

(***************************************************************************)
(* Machine integers                                                        *)
(***************************************************************************)
I16Min == -32768
I16Max == 32767
I16Mod == 65536
SecondScale == 1000000

\* `x as i16` on an i32: keeps the low 16 bits (two's complement).
AsI16(x) == ((x + 32768) % I16Mod) - 32768

\* `x as u8` on a u32.
AsU8(x) == x % 256

Pow2(n) == IF n <= 0 THEN 1 ELSE 2 ^ n

\* 2^n mod m by repeated doubling (n up to 58: the power itself is too wide).
RECURSIVE Pow2Mod(_, _)
Pow2Mod(n, m) == IF n = 0 THEN 1 % m ELSE (2 * Pow2Mod(n - 1, m)) % m

RECURSIVE FloorLog2(_)
FloorLog2(n) == IF n <= 1 THEN 0 ELSE 1 + FloorLog2(n \div 2)

(***************************************************************************)
(* Decimal formatting, as Rust's Display for integers and floats           *)
(***************************************************************************)
DigitChar == <<"0", "1", "2", "3", "4", "5", "6", "7", "8", "9">>

RECURSIVE NatStr(_)
NatStr(n) == IF n < 10 THEN <<DigitChar[n + 1]>>
             ELSE NatStr(n \div 10) \o <<DigitChar[(n % 10) + 1]>>

\* "{}" of a signed integer: a minus sign for negatives, no plus sign.
IntStr(n) == IF n < 0 THEN <<"-">> \o NatStr(-n) ELSE NatStr(n)

\* "{:+}" of a signed integer: the sign is always written, "+0" for zero.
SignedStr(n) == IF n < 0 THEN <<"-">> \o NatStr(-n) ELSE <<"+">> \o NatStr(n)

\* The digits of a fraction f / 10^width, trailing zeros dropped.
RECURSIVE FracDigits(_, _)
FracDigits(f, width) ==
    IF f = 0 THEN <<>>
    ELSE LET unit == 10 ^ (width - 1)
         IN  <<DigitChar[(f \div unit) + 1]>> \o FracDigits((f % unit) * 10, width)

\* "{}" of the f32 second (non-negative, counted in 1/SecondScale):
\* "30" for 30.0, "30.5" for 30.5.
SecondStr(s) ==
    NatStr(s \div SecondScale) \o
    (IF s % SecondScale = 0 THEN <<>>
     ELSE <<".">> \o FracDigits(s % SecondScale, 6))

(***************************************************************************)
(* f64 arithmetic of Display: (zone as f64 / 3600.0).fract() * 60.0 as i32 *)
(*                                                                         *)
(* Let |zone| = 3600 q + r.  h = RN(|zone| / 3600) lies on the grid        *)
(* 2^-n, n = 52 - e, e the binary exponent of h; fract() is exact, so      *)
(* fract = (r * 2^n -+ rho) / 3600 * 2^-n.  When r is not a whole minute   *)
(* the error is far below 1/60 and truncation gives r div 60.  When        *)
(* r = 60 j the product 60 * fract = j - rho * 2^-n (rounded down) or      *)
(* j + (60 - rho) * 2^-n (rounded up), rho = (j * 2^n) mod 60; it rounds   *)
(* back to j only when rho * 2^-n is at most half the spacing of the       *)
(* doubles below j, and truncates to j - 1 otherwise.  fract() keeps the   *)
(* sign of its argument, so a negative zone gives the negated minutes.     *)
(***************************************************************************)
F64Exponent(q, j) ==
    IF q >= 1 THEN FloorLog2(q)
    ELSE IF j >= 30 THEN -1
    ELSE IF j >= 15 THEN -2
    ELSE IF j >= 8 THEN -3
    ELSE IF j >= 4 THEN -4
    ELSE IF j >= 2 THEN -5
    ELSE -6

F64WholeMinute(q, j) ==
    LET n == 52 - F64Exponent(q, j)
        rho == (j * Pow2Mod(n, 60)) % 60
        a == FloorLog2(j)
        x == IF j = Pow2(a) THEN n + a - 54 ELSE n + a - 53
    IN  IF rho = 0 \/ rho > 30 THEN j
        ELSE IF x >= 0 /\ rho <= Pow2(x) THEN j
        ELSE j - 1

F64FractMins(zone) ==
    LET az == IF zone < 0 THEN -zone ELSE zone
        q == az \div 3600
        r == az % 3600
        m == IF r % 60 # 0 THEN r \div 60
             ELSE IF r = 0 THEN 0
             ELSE F64WholeMinute(q, r \div 60)
    IN  IF zone < 0 THEN -m ELSE m

\* (zone as f64 / 3600.0).floor() as i32: the quotient is never rounded to
\* an integer unless it is one, so this is floor division.
F64FloorHours(zone) == zone \div 3600


(***************************************************************************)
(* Tag system: Calendar and Scale markers and their names                  *)
(***************************************************************************)
Calendars == {"Gregorian", "Julian"}
Scales == {"UTC", "ET"}

\* S::name()
ScaleName(scale) ==
    IF scale = "UTC" THEN <<"U", "T", "C">> ELSE <<"T", "D", "B">>

\* C::short_name()
CalendarShortName(calendar) ==
    IF calendar = "Gregorian" THEN <<"G", "R", "E", "G">>
    ELSE <<"J", "U", "L">>

(***************************************************************************)
(* The ephemeris service: calendar arithmetic on Julian Day Numbers        *)
(***************************************************************************)
\* The Julian Day Number of 2000-01-01 (Gregorian), the epoch of ET.
J2000 == 2451545
SecondsPerDay == 86400
HalfDay == 43200

IsLeap(calendar, y) ==
    IF calendar = "Julian" THEN y % 4 = 0
    ELSE (y % 4 = 0 /\ y % 100 # 0) \/ y % 400 = 0

DaysInMonth(calendar, y, m) ==
    IF m = 2 THEN (IF IsLeap(calendar, y) THEN 29 ELSE 28)
    ELSE IF m \in {4, 6, 9, 11} THEN 30 ELSE 31

\* Julian Day Number of the civil date y-m-d (y astronomical: 0 is 1 BC).
CivilToJDN(calendar, y, m, d) ==
    LET a == (14 - m) \div 12
        yy == y - a
        mp == m + 12 * a - 3
        base == d + ((153 * mp + 2) \div 5) + 365 * yy + (yy \div 4)
    IN  IF calendar = "Julian" THEN base + 1721117
        ELSE base - (yy \div 100) + (yy \div 400) + 1721119

\* The civil date <<y, m, d>> of a Julian Day Number.
JDNToCivil(calendar, jdn) ==
    LET f == IF calendar = "Julian" THEN jdn + 1401
             ELSE jdn + 1401 + ((((4 * jdn + 274277) \div 146097) * 3) \div 4) - 38
        e == 4 * f + 3
        g == (e % 1461) \div 4
        h == 5 * g + 2
        d == ((h % 153) \div 5) + 1
        m == (((h \div 153) + 2) % 12) + 1
        y == (e \div 1461) - 4716 + ((12 + 2 - m) \div 12)
    IN  <<y, m, d>>

(***************************************************************************)
(* The ephemeris service: parsing the composed date string                 *)
(***************************************************************************)
Digits == {"0", "1", "2", "3", "4", "5", "6", "7", "8", "9"}

DigitVal(c) == CHOOSE v \in 0..9 : DigitChar[v + 1] = c

Drop(s, n) == SubSeq(s, n + 1, Len(s))

HasPrefix(s, lit) == Len(s) >= Len(lit) /\ SubSeq(s, 1, Len(lit)) = lit

RECURSIVE IndexOf(_, _)
IndexOf(s, c) ==
    IF s = <<>> THEN 0
    ELSE IF Head(s) = c THEN 1
    ELSE LET i == IndexOf(Tail(s), c) IN IF i = 0 THEN 0 ELSE i + 1

\* The pieces of s between the occurrences of the character c.
RECURSIVE SplitOn(_, _)
SplitOn(s, c) ==
    LET i == IndexOf(s, c)
    IN  IF i = 0 THEN <<s>>
        ELSE <<SubSeq(s, 1, i - 1)>> \o SplitOn(Drop(s, i), c)

\* A numeral of one to six digits.
IsNumeral(s) == Len(s) \in 1..6 /\ \A i \in 1..Len(s) : s[i] \in Digits

RECURSIVE NatVal(_)
NatVal(s) ==
    IF s = <<>> THEN 0 ELSE 10 * NatVal(SubSeq(s, 1, Len(s) - 1)) + DigitVal(s[Len(s)])

\* A decimal number of seconds below 60, in units of 1/SecondScale.
ReadSeconds(s) ==
    LET parts == SplitOn(s, ".")
        ok == /\ Len(parts) \in 1..2
              /\ \A i \in 1..Len(parts) : IsNumeral(parts[i])
              /\ NatVal(parts[1]) < 60
    IN  [ok |-> ok,
         val |-> IF ~ok THEN 0
                 ELSE NatVal(parts[1]) * SecondScale +
                      (IF Len(parts) = 2
                       THEN NatVal(parts[2]) * (10 ^ (6 - Len(parts[2])))
                       ELSE 0)]

NoET == [day |-> 0, sod |-> 0, us |-> 0]
ConversionError == "ConversionError"

\* The zone is added instead of subtracted.
ETPlusSeconds(et, secs) ==
    LET t == et.sod + (secs % SecondsPerDay)
    IN  [day |-> et.day + (secs \div SecondsPerDay) + (t \div SecondsPerDay),
         sod |-> t % SecondsPerDay,
         us |-> et.us]

\* et.0 - self.zone as f64: the zone's seconds are taken off an ET.
ETMinusSeconds(et, secs) ==
    LET t == et.sod - (secs % SecondsPerDay)
    IN  [day |-> et.day - (secs \div SecondsPerDay) + (t \div SecondsPerDay),
         sod |-> t % SecondsPerDay,
         us |-> et.us]

\* SPICE::string_to_et: "Y[ BC]-M-D h:m:s SCALE CAL" to seconds past J2000,
\* or a ConversionError when the text or a field is not acceptable.
string_to_et(text) ==
    LET words == SplitOn(text, " ")
        bc == Len(words) = 5 /\ HasPrefix(words[2], <<"B", "C", "-">>)
        \* year, month, day
        ymd == IF bc THEN <<words[1]>> \o SplitOn(Drop(words[2], 3), "-")
               ELSE SplitOn(words[1], "-")
        hms == SplitOn(words[Len(words) - 2], ":")
        calendars == {x \in Calendars : CalendarShortName(x) = words[Len(words)]}
        syntax == /\ Len(words) = 4 \/ bc
                  /\ Len(ymd) = 3 /\ \A i \in 1..3 : IsNumeral(ymd[i])
                  /\ Len(hms) = 3 /\ IsNumeral(hms[1]) /\ IsNumeral(hms[2])
                  /\ ReadSeconds(hms[3]).ok
                  /\ \E x \in Scales : ScaleName(x) = words[Len(words) - 1]
                  /\ calendars # {}
        calendar == CHOOSE x \in calendars : TRUE
        y == IF bc THEN 1 - NatVal(ymd[1]) ELSE NatVal(ymd[1])
        mo == NatVal(ymd[2])
        dy == NatVal(ymd[3])
        hr == NatVal(hms[1])
        mi == NatVal(hms[2])
        se == ReadSeconds(hms[3]).val
        fields == /\ NatVal(ymd[1]) >= 1
                  /\ mo \in 1..12
                  /\ dy >= 1 /\ dy <= DaysInMonth(calendar, y, mo)
                  /\ hr \in 0..23
                  /\ mi \in 0..59
        sod == hr * 3600 + mi * 60 + (se \div SecondScale)
        jdn == CivilToJDN(calendar, y, mo, dy)
    IN  IF syntax /\ fields
        THEN [ok |-> TRUE,
              et |-> [day |-> jdn - J2000 + ((sod - HalfDay) \div SecondsPerDay),
                      sod |-> (sod - HalfDay) % SecondsPerDay,
                      us |-> se % SecondScale],
              err |-> ""]
        ELSE [ok |-> FALSE, et |-> NoET, err |-> ConversionError]

\* ET::to_date_time: the civil reading of an ET in the requested calendar
\* and scale, with zone 0; a ConversionError when the year does not fit the
\* DateTime.
et_to_date_time(et, calendar, scale) ==
    LET t == et.sod + HalfDay
        jdn == et.day + J2000 + (t \div SecondsPerDay)
        sod == t % SecondsPerDay
        civil == JDNToCivil(calendar, jdn)
        ok == civil[1] >= I16Min /\ civil[1] <= I16Max
    IN  [ok |-> ok,
         dt |-> [year |-> IF ok THEN civil[1] ELSE 0,
                 month |-> civil[2],
                 day |-> civil[3],
                 hour |-> sod \div 3600,
                 minute |-> (sod % 3600) \div 60,
                 second |-> (sod % 60) * SecondScale + et.us,
                 zone |-> 0,
                 calendar |-> calendar,
                 scale |-> scale],
         err |-> IF ok THEN "" ELSE ConversionError]

NoJD == [jdn |-> 0, sod |-> 0, us |-> 0, scale |-> "ET"]

\* ET::to_julian_date: the day count of an ET, tagged with the scale.
et_to_julian_date(et, scale) ==
    [jdn |-> et.day + J2000, sod |-> et.sod, us |-> et.us, scale |-> scale]

\* JulianDate::to_et
jd_to_et(jd) == [day |-> jd.jdn - J2000, sod |-> jd.sod, us |-> jd.us]

(***************************************************************************)
(* DateTime                                                                *)
(***************************************************************************)
\* The hour and the minute change places.
with_zone_swapped(year, month, day, hour, minute, second, zone, calendar, scale) ==
    [year |-> year, month |-> month, day |-> day, hour |-> minute,
     minute |-> hour, second |-> second, zone |-> zone,
     calendar |-> calendar, scale |-> scale]

with_zone(year, month, day, hour, minute, second, zone, calendar, scale) ==
    [year |-> year, month |-> month, day |-> day, hour |-> hour,
     minute |-> minute, second |-> second, zone |-> zone,
     calendar |-> calendar, scale |-> scale]

new(year, month, day, hour, minute, second, calendar, scale) ==
    with_zone(year, month, day, hour, minute, second, 0, calendar, scale)

ArithmeticOverflow == "attempt to compute with overflow"

\* The BC year is written without the off-by-one.
YearTextNoOffset(year, overflow_checks) ==
    IF year > 0 THEN [panic |-> FALSE, text |-> IntStr(year)]
    ELSE IF overflow_checks /\ year = I16Min THEN [panic |-> TRUE, text |-> <<>>]
    ELSE [panic |-> FALSE,
          text |-> IntStr(IF year = I16Min THEN I16Min ELSE -year) \o <<" ", "B", "C">>]

\* The year fragment of the date string.  self.year.abs() + 1 is i16
\* arithmetic: with overflow checks (a debug build) an overflow panics,
\* without them (a release build) it wraps.
YearText(year, overflow_checks) ==
    IF year > 0 THEN [panic |-> FALSE, text |-> IntStr(year)]
    ELSE LET abs_overflows == year = I16Min
             abs == IF abs_overflows THEN I16Min ELSE -year
             add_overflows == abs = I16Max
             n == AsI16(abs + 1)
         IN  IF overflow_checks /\ (abs_overflows \/ add_overflows)
             THEN [panic |-> TRUE, text |-> <<>>]
             ELSE [panic |-> FALSE, text |-> IntStr(n) \o <<" ", "B", "C">>]

\* format!("{year}-{}-{} {}:{}:{} {} {}", ...)
ComposeDate(self, year) ==
    year \o <<"-">> \o NatStr(self.month) \o <<"-">> \o NatStr(self.day)
         \o <<" ">> \o NatStr(self.hour) \o <<":">> \o NatStr(self.minute)
         \o <<":">> \o SecondStr(self.second)
         \o <<" ">> \o ScaleName(self.scale)
         \o <<" ">> \o CalendarShortName(self.calendar)

\* The outcome of a call: kind is "et", "jd", "text", "value" (a new
\* DateTime) or "panic"; calls counts the consultations of string_to_et and
\* date is the text handed to it.
Outcome(kind, et, jd, text, err, date, calls) ==
    [kind |-> kind, et |-> et, jd |-> jd, text |-> text, err |-> err,
     date |-> date, calls |-> calls]

\* A rejected string falls back to the epoch instead of failing.
to_et_with_fallback(self, overflow_checks) ==
    LET year == YearText(self.year, overflow_checks)
        date == ComposeDate(self, year.text)
        et == string_to_et(date)
    IN  IF year.panic
        THEN Outcome("panic", NoET, NoJD, <<>>, ArithmeticOverflow, <<>>, 0)
        ELSE Outcome("et", ETMinusSeconds(et.et, self.zone), NoJD, <<>>, "", date, 1)

to_et(self, overflow_checks) ==
    LET year == YearText(self.year, overflow_checks)
        date == ComposeDate(self, year.text)
        et == string_to_et(date)
    IN  IF year.panic
        THEN Outcome("panic", NoET, NoJD, <<>>, ArithmeticOverflow, <<>>, 0)
        ELSE IF ~et.ok
        THEN Outcome("panic", NoET, NoJD, <<>>, et.err, date, 1)
        ELSE Outcome("et", ETMinusSeconds(et.et, self.zone), NoJD, <<>>, "", date, 1)

to_julian_date(self, overflow_checks) ==
    LET r == to_et(self, overflow_checks)
    IN  IF r.kind = "panic" THEN r
        ELSE Outcome("jd", NoET, et_to_julian_date(r.et, self.scale), <<>>, "",
                     r.date, r.calls)

from_julian_date(jd, calendar) ==
    et_to_date_time(jd_to_et(jd), calendar, jd.scale)

\* The "{:+}:{mins}" part of the rendering.
ZonePart(zone) ==
    LET whole_hrs == F64FloorHours(zone)
        mins == F64FractMins(zone)
    IN  SignedStr(whole_hrs) \o <<":">> \o IntStr(mins)

\* Display::fmt
fmt(self) ==
    IntStr(self.year) \o <<"-">> \o NatStr(self.month) \o <<"-">> \o NatStr(self.day)
        \o <<" ">> \o NatStr(self.hour) \o <<":">> \o NatStr(self.minute)
        \o <<":">> \o SecondStr(self.second)
        \o <<" ">> \o ZonePart(self.zone)
        \o <<" ">> \o ScaleName(self.scale)
        \o <<" ">> \o CalendarShortName(self.calendar)

\* c.second() as f32 + c.nanosecond() as f32 / 1_000_000.0, in units of
\* 1/SecondScale: SecondScale is that divisor, so the quotient is the
\* nanosecond count itself.
\* The fraction is scaled as true nanoseconds (divisor one billion).
ChronoSecondsBillion(c) == c.second * SecondScale + (c.nanosecond \div 1000)

ChronoSeconds(c) == c.second * SecondScale + c.nanosecond

\* From<chrono::DateTime<FixedOffset>> for DateTime<Gregorian, UTC>
from_chrono(c) ==
    with_zone(AsI16(c.year), AsU8(c.month), AsU8(c.day), AsU8(c.hour),
              AsU8(c.minute), ChronoSeconds(c), c.zone, "Gregorian", "UTC")

(***************************************************************************)
(* Inputs                                                                  *)
(***************************************************************************)
Years == {I16Min, I16Min + 1, -1, 0, 1, 2024, I16Max}
MonthDays == {<<1, 1>>, <<2, 29>>, <<12, 31>>, <<13, 0>>}
Times == {<<0, 0, 0>>, <<23, 59, 30500000>>}
Zones == {-5400, 0, 3600, 3660, 5400}
Tags == {<<"Gregorian", "UTC">>, <<"Julian", "ET">>}

ChronoYears == {2024, I16Max + 1, I16Min - 1}
ChronoMonthDays == {<<1, 1>>, <<12, 31>>}
ChronoTimes == {<<12, 0, 30, 500000000>>, <<23, 59, 59, 1500000000>>}
ChronoOffsets == {-5400, 0, 3600}

\* The arguments of a call, one shape for all operations: the constructors
\* take no nanosecond, the adapter's zone is the moment's offset from UTC and
\* from_julian_date takes only the calendar it is asked for.
Input(year, md, t, nanosecond, zone, tag) ==
    [year |-> year, month |-> md[1], day |-> md[2], hour |-> t[1],
     minute |-> t[2], second |-> t[3], nanosecond |-> nanosecond,
     zone |-> zone, calendar |-> tag[1], scale |-> tag[2]]

Chrono(year, md, t, offset) ==
    Input(year, md, t, t[4], offset, <<"Gregorian", "UTC">>)

Args(year, md, t, zone, tag) == Input(year, md, t, 0, zone, tag)

NoInput(calendar) == Input(0, <<0, 0>>, <<0, 0, 0>>, 0, 0, <<calendar, "UTC">>)

(***************************************************************************)
(* State: one caller holding a DateTime value and calling its operations   *)
(***************************************************************************)
VARIABLES
    overflow_checks,  \* whether the build panics on integer overflow
    dt,               \* the DateTime the caller holds
    recv,             \* the value the last operation was given (its self)
    op,               \* the last operation
    input,            \* the arguments of the last constructor or adapter call
    out               \* the outcome of the last operation

vars == <<overflow_checks, dt, recv, op, input, out>>

Init ==
    /\ overflow_checks \in BOOLEAN
    /\ dt = new(2000, 1, 1, 12, 0, 0, "Gregorian", "UTC")
    /\ recv = dt
    /\ op = "new"
    /\ input = Args(2000, <<1, 1>>, <<12, 0, 0>>, 0, <<"Gregorian", "UTC">>)
    /\ out = Outcome("value", NoET, NoJD, <<>>, "", <<>>, 0)

\* A value is constructed before anything is called on it: a run follows one
\* value from its construction through the calls made on it.
Constructors == {"new", "with_zone", "from_chrono"}

Construct(name, value, in) ==
    /\ op \in Constructors
    /\ dt' = value
    /\ recv' = value
    /\ op' = name
    /\ input' = in
    /\ out' = Outcome("value", NoET, NoJD, <<>>, "", <<>>, 0)

New ==
    \E year \in Years, md \in MonthDays, t \in Times, tag \in Tags :
        /\ Construct("new",
                     new(year, md[1], md[2], t[1], t[2], t[3], tag[1], tag[2]),
                     Args(year, md, t, 0, tag))
        /\ UNCHANGED overflow_checks

WithZone ==
    \E year \in Years, md \in MonthDays, t \in Times, zone \in Zones, tag \in Tags :
        /\ Construct("with_zone",
                     with_zone(year, md[1], md[2], t[1], t[2], t[3], zone, tag[1], tag[2]),
                     Args(year, md, t, zone, tag))
        /\ UNCHANGED overflow_checks

FromChrono ==
    \E year \in ChronoYears, md \in ChronoMonthDays, t \in ChronoTimes,
       offset \in ChronoOffsets :
        /\ Construct("from_chrono", from_chrono(Chrono(year, md, t, offset)),
                     Chrono(year, md, t, offset))
        /\ UNCHANGED overflow_checks

Call(name, calendar, result) ==
    /\ op' = name
    /\ recv' = dt
    /\ input' = NoInput(calendar)
    /\ out' = result
    /\ UNCHANGED overflow_checks

\* to_et undoes the zone in the value it was called on.
ToEtInPlace ==
    Call("to_et", dt.calendar, to_et(dt, overflow_checks)) /\ dt' = [dt EXCEPT !.zone = 0]

ToEt == Call("to_et", dt.calendar, to_et(dt, overflow_checks)) /\ dt' = dt

ToJulianDate ==
    Call("to_julian_date", dt.calendar, to_julian_date(dt, overflow_checks)) /\ dt' = dt

Fmt ==
    Call("fmt", dt.calendar, Outcome("text", NoET, NoJD, fmt(dt), "", <<>>, 0)) /\ dt' = dt

\* The caller turns the Julian Date it has just obtained back into a
\* DateTime of calendar C.
FromJulianDate ==
    /\ op = "to_julian_date"
    /\ out.kind = "jd"
    /\ \E calendar \in Calendars :
        LET r == from_julian_date(out.jd, calendar)
        IN  /\ dt' = IF r.ok THEN r.dt ELSE dt
            /\ Call("from_julian_date", calendar,
                    IF r.ok THEN Outcome("value", NoET, NoJD, <<>>, "", <<>>, 0)
                    ELSE Outcome("panic", NoET, NoJD, <<>>, r.err, <<>>, 0))

Next ==
    \/ New
    \/ WithZone
    \/ FromChrono
    \/ ToEt
    \/ ToJulianDate
    \/ Fmt
    \/ FromJulianDate

Spec == Init /\ [][Next]_vars


(***************************************************************************)
(* Properties                                                              *)
(***************************************************************************)
\* The parts of a rendering: date, time, zone, scale, calendar.
ZoneField(text) == SplitOn(text, " ")[3]
MinutesField(text) == Drop(ZoneField(text), IndexOf(ZoneField(text), ":"))
HoursField(text) == SubSeq(ZoneField(text), 1, IndexOf(ZoneField(text), ":") - 1)

\* Whole seconds from ET b to ET a.
ETDiffSeconds(a, b) == (a.day - b.day) * SecondsPerDay + (a.sod - b.sod)

\* The service was handed the string composed from the receiver and
\* accepted it / rejected it.
Accepted == out.calls = 1 /\ string_to_et(out.date).ok
Rejected == out.calls = 1 /\ ~string_to_et(out.date).ok

\* C1: when the service accepts the composed string, to_et returns the
\* service's coordinate minus zone seconds; the composed string is the one
\* of the same civil fields with zone 0, whose result lies exactly zone
\* seconds later.
C1_ZoneShift ==
    (op = "to_et" /\ Accepted) =>
        LET parsed == string_to_et(out.date).et
            plain == to_et([recv EXCEPT !.zone = 0], overflow_checks)
        IN  /\ out.kind = "et"
            /\ ETDiffSeconds(out.et, parsed) = -recv.zone
            /\ out.et.us = parsed.us
            /\ out.et.sod \in 0..(SecondsPerDay - 1)
            /\ plain.kind = "et"
            /\ plain.date = out.date
            /\ ETDiffSeconds(out.et, plain.et) = -recv.zone

C1_Witness ==
    op = "to_et" /\ Accepted /\ out.kind = "et" /\ recv.zone = -5400 /\ recv.year = -1

\* C2: to_et writes a year <= 0 as "(|year|+1) BC" for every i16 year,
\* without overflow or wrap-around, and a year > 0 as its plain number.
C2_YearFragment ==
    op = "to_et" =>
        /\ out.calls = 1
        /\ HasPrefix(out.date,
                     IF recv.year > 0 THEN NatStr(recv.year) \o <<"-">>
                     ELSE NatStr(1 - recv.year) \o <<" ", "B", "C", "-">>)

\* C3: the minutes of the rendered zone never carry a minus sign, and a zone
\* of -5400 seconds renders as "-1:30".
C3_MinutesNonNegative ==
    op = "fmt" =>
        /\ IndexOf(MinutesField(out.text), "-") = 0
        /\ recv.zone = -5400 => ZoneField(out.text) = <<"-", "1", ":", "3", "0">>

\* C4: the hours of the rendered zone are floor(zone / 3600) with an explicit
\* sign, and for a non-negative zone the minutes are (zone mod 3600) div 60.
C4_ZoneHoursMinutes ==
    op = "fmt" =>
        /\ HoursField(out.text) =
               (IF recv.zone \div 3600 < 0 THEN <<"-">> ELSE <<"+">>)
               \o NatStr(IF recv.zone \div 3600 < 0 THEN -(recv.zone \div 3600)
                         ELSE recv.zone \div 3600)
        /\ recv.zone >= 0 =>
               MinutesField(out.text) = NatStr((recv.zone % 3600) \div 60)
        /\ recv.zone = 0 => ZoneField(out.text) = <<"+", "0", ":", "0">>
        /\ recv.zone = 3600 => ZoneField(out.text) = <<"+", "1", ":", "0">>
        /\ recv.zone = 5400 => ZoneField(out.text) = <<"+", "1", ":", "3", "0">>

\* C5: when the service rejects the composed string, to_et and
\* to_julian_date produce no value: the service was consulted once, nothing
\* was subtracted, and the service's error is what the caller gets.
C5_RejectionSurfaces ==
    (op \in {"to_et", "to_julian_date"} /\ ~string_to_et(out.date).ok /\ out.date # <<>>) =>
        /\ out.kind = "panic"
        /\ out.err = string_to_et(out.date).err
        /\ out.calls = 1
        /\ out.et = NoET
        /\ out.jd = NoJD

C5_Witness ==
    op = "to_julian_date" /\ Rejected /\ recv.month = 13 /\ recv.zone # 0

\* C6: the adapter sets second to whole seconds plus nanoseconds / 1_000_000
\* (30 s and 500,000,000 ns give 530) and zone to the offset from UTC.
C6_AdapterSeconds ==
    op = "from_chrono" =>
        /\ dt.second \div SecondScale = input.second + (input.nanosecond \div 1000000)
        /\ dt.second % SecondScale = input.nanosecond % 1000000
        /\ (input.second = 30 /\ input.nanosecond = 500000000) =>
               dt.second = 530 * SecondScale
        /\ dt.zone = input.zone

C6_Witness ==
    /\ op = "from_chrono"
    /\ input.second = 30
    /\ input.nanosecond = 500000000
    /\ input.zone = -5400

\* C7: a DateTime with zone 0 that the service accepts comes back unchanged
\* from to_julian_date followed by from_julian_date with the same tags.
C7_JulianRoundTrip ==
    (op = "from_julian_date" /\ recv.zone = 0 /\ input.calendar = recv.calendar) =>
        out.kind = "value" /\ dt = recv

C7_Witness ==
    /\ op = "from_julian_date"
    /\ recv.zone = 0
    /\ recv.year = -1
    /\ recv.month = 12
    /\ recv.second # 0
    /\ recv.calendar = "Julian"
    /\ input.calendar = "Julian"
    /\ dt = recv

\* C8: construction stores exactly the values it is given, whatever they
\* are, and new stores zone 0.
C8_ConstructionStores ==
    op \in {"new", "with_zone"} =>
        /\ dt.year = input.year
        /\ dt.month = input.month
        /\ dt.day = input.day
        /\ dt.hour = input.hour
        /\ dt.minute = input.minute
        /\ dt.second = input.second
        /\ dt.calendar = input.calendar
        /\ dt.scale = input.scale
        /\ dt.zone = IF op = "new" THEN 0 ELSE input.zone
        /\ out.kind = "value"

C8_Witness ==
    op = "with_zone" /\ dt.month = 13 /\ dt.day = 0 /\ dt.zone = 3660 /\ dt.hour = 23

\* C9: to_et, to_julian_date and Display leave the value they are called on
\* as it was, fields and tags, whether the service call succeeds or fails.
C9_NeverMutated ==
    op \in {"to_et", "to_julian_date", "fmt"} => dt = recv

C9_Witness ==
    op = "to_et" /\ out.kind = "panic" /\ Rejected /\ dt.zone # 0 /\ dt = recv

\* C10: the adapter keeps the year, month, day, hour and minute of every
\* moment, the year included when it is narrowed to 16 bits.
C10_AdapterKeepsFields ==
    op = "from_chrono" =>
        /\ dt.year = input.year
        /\ dt.month = input.month
        /\ dt.day = input.day
        /\ dt.hour = input.hour
        /\ dt.minute = input.minute

=============================================================================
